---- MODULE Spec2Model ----
(***************************************************************************)
(* A model of the review ingestion service: the RSS feed collector, the    *)
(* de-duplicating upsert into the reviews table, the collect handler, the  *)
(* download endpoint and the recommendation generator.                     *)
(*                                                                         *)
(* Text is modelled as a sequence of one-character strings, so that the    *)
(* conversions of the code (clean_text, int(), strip, lower, split) are    *)
(* computed and not assumed.  The special characters are written "zwsp"    *)
(* (U+200B), "nbsp" (U+00A0) and "nl" (a line break).                      *)
(***************************************************************************)
EXTENDS Integers, Sequences, FiniteSets, TLC

VARIABLES
    reviews,   \* the rows of table "reviews" (models.Review), in insertion order
    last,      \* the last call: its inputs and, once it has run, its outcome
    calls,     \* the number of calls made so far
    threads,   \* the local variables and the position of each concurrent caller
    globals    \* the module-level names of nlp/sentiment.py and nlp/recommender_llm.py

vars == <<reviews, last, calls, threads, globals>>

\* Where calls are served one at a time no caller is under way, and where the
\* inference pipelines play no part their modules' globals are left out.
NoThreads == <<>>

NoGlobals == <<>>

\* ------------------------------------------------------------------ bounds

MaxFeedPages == 2      \* pages the remote feed holds (fetch specification)
MaxPageEntries == 2    \* entries on one page of the remote feed
MaxCalls == 2          \* requests the service handles in one run

\* ------------------------------------------------------------------ helpers

Min(a, b) == IF a <= b THEN a ELSE b

SeqsUpTo(S, n) == UNION {[1..k -> S] : k \in 0..n}

RECURSIVE Concat(_, _)
\* the sequences f[1] .. f[n] joined
Concat(f, n) == IF n = 0 THEN <<>> ELSE Concat(f, n - 1) \o f[n]

None == "None"

\* ------------------------------------------------------------------ utils/text.py

WhitespaceChars == {" ", "nl"}

\* s.replace(zwsp,' ').replace(nbsp,' ')
ReplaceSpecial(s) ==
    [i \in 1..Len(s) |-> IF s[i] \in {"zwsp", "nbsp"} THEN " " ELSE s[i]]

RECURSIVE CollapseWs(_)
\* re.sub(r'\s+', ' ', s): every run of whitespace becomes one space
CollapseWs(s) ==
    IF s = <<>> THEN <<>>
    ELSE IF Head(s) \in WhitespaceChars
         THEN IF Len(s) > 1 /\ s[2] \in WhitespaceChars
              THEN CollapseWs(Tail(s))
              ELSE <<" ">> \o CollapseWs(Tail(s))
         ELSE <<Head(s)>> \o CollapseWs(Tail(s))

RECURSIVE LStrip(_)
LStrip(s) ==
    IF s # <<>> /\ Head(s) \in WhitespaceChars THEN LStrip(Tail(s)) ELSE s

RECURSIVE RStrip(_)
RStrip(s) ==
    IF s # <<>> /\ s[Len(s)] \in WhitespaceChars
    THEN RStrip(SubSeq(s, 1, Len(s) - 1)) ELSE s

\* str.strip()
Strip(s) == RStrip(LStrip(s))

clean_text(s) ==
    IF s = <<>> THEN <<>> ELSE Strip(CollapseWs(ReplaceSpecial(s)))

\* ------------------------------------------------------------------ int()

Digits == {"0", "1", "2", "3", "4", "5", "6", "7", "8", "9"}

DigitVal(c) ==
    CASE c = "0" -> 0 [] c = "1" -> 1 [] c = "2" -> 2 [] c = "3" -> 3
      [] c = "4" -> 4 [] c = "5" -> 5 [] c = "6" -> 6 [] c = "7" -> 7
      [] c = "8" -> 8 [] c = "9" -> 9

RECURSIVE DecimalVal(_)
DecimalVal(s) ==
    IF s = <<>> THEN 0
    ELSE 10 * DecimalVal(SubSeq(s, 1, Len(s) - 1)) + DigitVal(s[Len(s)])

IsDecimal(s) == s # <<>> /\ \A i \in 1..Len(s) : s[i] \in Digits

\* int(label) of a string label: an optional sign and decimal digits, and a
\* ValueError for anything else
IntOfLabel(s) ==
    IF IsDecimal(s) THEN [exc |-> None, val |-> DecimalVal(s)]
    ELSE IF s # <<>> /\ Head(s) \in {"-", "+"} /\ IsDecimal(Tail(s))
         THEN [exc |-> None,
               val |-> IF Head(s) = "-" THEN 0 - DecimalVal(Tail(s))
                       ELSE DecimalVal(Tail(s))]
         ELSE [exc |-> "ValueError", val |-> 0]

\* ------------------------------------------------------------------ collectors/rss_client.py

\* One entry of a feed page.  has_rating: the key 'im:rating' is in the entry;
\* has_label and label: whether it holds a rating label, and that text;
\* id and text: the labels of 'id' and 'content'.
Entry(has, id, label, text) ==
    [has_rating |-> has, id |-> id, has_label |-> label # <<>>,
     label |-> IF label = <<>> THEN <<>> ELSE label[1], text |-> text]

Label(s) == <<s>>

NoLabel == <<>>

E_r1 == Entry(TRUE, "r1", Label(<<"5">>), <<"a", "nbsp", " ", "b">>)
E_r1_neg == Entry(TRUE, "r1", Label(<<"-", "1">>), <<>>)
E_r2 == Entry(TRUE, "r2", Label(<<"1">>), <<"zwsp", "c", "nl">>)
E_r2_big == Entry(TRUE, "r2", Label(<<"7">>), <<"c">>)
E_r2_zero == Entry(TRUE, "r2", Label(<<"0">>), <<"c">>)
E_noid == Entry(TRUE, "", Label(<<"4">>), <<"d">>)
E_nolabel == Entry(TRUE, "r1", NoLabel, <<"d">>)
E_meta == Entry(FALSE, "app", NoLabel, <<>>)
E_bad == Entry(TRUE, "r2", Label(<<"a", "b">>), <<"c">>)

\* What one requests.get answers: kind "ok" (status 200 and a JSON body with
\* these entries), "http_error" (another status), "network_error"
\* (requests.get raises) or "bad_json" (r.json() raises).
Page(kind, entries) == [kind |-> kind, entries |-> entries]

FailedPageKinds == {"http_error", "network_error", "bad_json"}

PagesOf(E, n) ==
    {Page("ok", es) : es \in SeqsUpTo(E, n)} \cup {Page(k, <<>>) : k \in FailedPageKinds}

\* The remote has no page past the end of the feed: it answers a non-200 status.
PageAt(feed, page) ==
    IF page <= Len(feed) THEN feed[page] ELSE Page("http_error", <<>>)

\* lines 22-43: the record appended for one entry (date, author, version and
\* title are carried like text and left out)
ReviewRecord(e, rating) ==
    [review_id |-> e.id, text |-> clean_text(e.text), rating |-> rating,
     source |-> "rss", language |-> ""]

\* line 25: int(e.get('im:rating',{}).get('label',0))
EntryRating(e) ==
    IF ~e.has_label THEN [exc |-> None, val |-> 0] ELSE IntOfLabel(e.label)

RECURSIVE ParseEntries(_, _, _)
\* lines 19-43: the loop over the entries of a page, appending to out until an
\* entry raises; the records appended before that stay in out
ParseEntries(entries, i, out) ==
    IF i > Len(entries) THEN [exc |-> None, out |-> out]
    ELSE IF ~entries[i].has_rating THEN ParseEntries(entries, i + 1, out)
    ELSE LET r == EntryRating(entries[i]) IN
         IF r.exc # None THEN [exc |-> r.exc, out |-> out]
         ELSE ParseEntries(entries, i + 1,
                           Append(out, ReviewRecord(entries[i], r.val)))

\* lines 12-43: the body of the try for one page
TryPage(p, out) ==
    CASE p.kind = "network_error" -> [exc |-> "ConnectionError", out |-> out]
      [] p.kind = "http_error" -> [exc |-> None, out |-> out]
      [] p.kind = "bad_json" -> [exc |-> "JSONDecodeError", out |-> out]
      [] OTHER -> ParseEntries(p.entries, 1, out)


\* line 44: except Exception catches every exception of the try
ExceptCatches(exc) == TRUE

\* line 45 with break for continue: the loop ends at the first failure
PageAfterBreak(page, max_pages) == max_pages + 1

\* line 45: continue, the loop goes on with the next page
PageAfterFailure(page, max_pages) == page + 1

RECURSIVE FetchPages(_, _, _, _)
FetchPages(feed, page, max_pages, out) ==
    IF page > max_pages THEN [raised |-> None, out |-> out]
    ELSE LET r == TryPage(PageAt(feed, page), out) IN
         IF r.exc = None
         THEN FetchPages(feed, page + 1, max_pages, r.out)
         ELSE IF ExceptCatches(r.exc)
              THEN FetchPages(feed, PageAfterFailure(page, max_pages), max_pages, r.out)
              ELSE [raised |-> r.exc, out |-> r.out]

\* RSSCollector.fetch
fetch(feed, max_pages) == FetchPages(feed, 1, max_pages, <<>>)

\* ------------------------------------------------------------------ models.py, database.py

\* A row of table "reviews".  The surrogate id of a row is its position in the
\* table; author, title, version and date are carried like text and left out.
Review(app_id, country, review_id, text, rating, source, language) ==
    [app_id |-> app_id, country |-> country, review_id |-> review_id,
     text |-> text, rating |-> rating, source |-> source, language |-> language]

SameKey(a, b) ==
    a.app_id = b.app_id /\ a.country = b.country /\ a.review_id = b.review_id

\* models.py line 18 without the constraint: no insert is refused
NoUniqueConstraint(table, row) == FALSE

\* models.py line 18: UniqueConstraint('app_id','country','review_id') refuses the
\* INSERT of a row whose key a row of the table has
UniqueViolation(table, row) == \E i \in 1..Len(table) : SameKey(table[i], row)

RECURSIVE Flush(_, _)
\* the INSERTs of the pending objects, in the order they were added
Flush(table, pending) ==
    IF pending = <<>> THEN [exc |-> None, table |-> table]
    ELSE IF UniqueViolation(table, Head(pending))
         THEN [exc |-> "IntegrityError", table |-> table]
         ELSE Flush(Append(table, Head(pending)), Tail(pending))

\* the session closed with no db.commit(): the pending objects are dropped
CommitForgotten(table, pending) == [exc |-> None, table |-> table]

\* db.commit() that leaves the rows flushed before the refused INSERT
CommitWithoutRollback(table, pending) == Flush(table, pending)

\* db.commit(): flushes the pending objects and commits; when an INSERT is
\* refused the transaction is rolled back and the table is as it was
Commit(table, pending) ==
    LET f == Flush(table, pending) IN
    IF f.exc = None THEN f ELSE [exc |-> f.exc, table |-> table]

\* database.py line 8, autoflush=False: a query reads the table and does not
\* see the objects added to the session and not yet flushed
QueryRows(table, pending) == table

\* db.query(Review).filter_by(app_id, country, review_id).first(): the position
\* of the first matching row, 0 when there is none
QueryFirst(rows, app_id, country, review_id) ==
    LET hits == {i \in 1..Len(rows) : /\ rows[i].app_id = app_id
                                      /\ rows[i].country = country
                                      /\ rows[i].review_id = review_id}
    IN IF hits = {} THEN 0 ELSE CHOOSE i \in hits : \A j \in hits : i <= j

\* db.query(Review).filter_by(app_id, country).all()
QueryAll(rows, app_id, country) ==
    SelectSeq(rows, LAMBDA r : r.app_id = app_id /\ r.country = country)

\* db.query(Review).filter_by(app_id, country).count()
QueryCount(rows, app_id, country) == Len(QueryAll(rows, app_id, country))

\* ------------------------------------------------------------------ services/review_service.py

\* random.getrandbits(32): the values drawn in the model
RandBits == {0, 2147483647}

\* f"rss-{n}"
SynthId(n) == IF n = 0 THEN "rss-0" ELSE "rss-2147483647"

\* line 19: r.get('review_id') or f"rss-{random.getrandbits(32)}"
NewReviewId(r, n) == IF r.review_id # "" THEN r.review_id ELSE SynthId(n)

\* lines 16-28
NewReview(app_id, country, r, n) ==
    Review(app_id, country, NewReviewId(r, n), clean_text(r.text), r.rating,
           r.source, r.language)

\* lines 14-15 merging the duplicate into the stored row
MergeDuplicate(table, i, app_id, country, r) ==
    [table EXCEPT ![i] = NewReview(app_id, country, r, 0)]

\* lines 14-15: a duplicate is skipped, the stored row stays as it is
OnDuplicate(table, i, app_id, country, r) == table

\* the count after a skipped row, were it counted
CountSkipped(inserted) == inserted + 1

\* lines 12, 15: continue leaves the count as it is
AfterSkip(inserted) == inserted

RECURSIVE UpsertLoop(_, _, _, _, _, _, _, _)
\* lines 10-30: the loop over rows; rnd[i] is the value getrandbits returns
\* for rows[i]
UpsertLoop(table, app_id, country, rows, rnd, i, pending, inserted) ==
    IF i > Len(rows) THEN [table |-> table, pending |-> pending, inserted |-> inserted]
    ELSE LET r == rows[i]
             hit == QueryFirst(QueryRows(table, pending), app_id, country, r.review_id)
         IN IF r.rating = 0
            THEN UpsertLoop(table, app_id, country, rows, rnd, i + 1, pending,
                            AfterSkip(inserted))
            ELSE IF hit # 0
            THEN UpsertLoop(OnDuplicate(table, hit, app_id, country, r), app_id,
                            country, rows, rnd, i + 1, pending, AfterSkip(inserted))
            ELSE UpsertLoop(table, app_id, country, rows, rnd, i + 1,
                            Append(pending, NewReview(app_id, country, r, rnd[i])),
                            inserted + 1)

\* upsert_reviews: the loop, then db.commit()
upsert_reviews(table, app_id, country, rows, rnd) ==
    LET l == UpsertLoop(table, app_id, country, rows, rnd, 1, <<>>, 0)
        c == Commit(l.table, l.pending)
    IN [exc |-> c.exc, table |-> IF c.exc = None THEN c.table ELSE table,
        inserted |-> l.inserted]

\* review_service.py line 41: fetch(app_id, country, max_pages=10)
CollectMaxPages == 10

\* line 37
SrcOrder(source) ==
    IF source \in {"auto", "webscraper"} THEN <<"webscraper", "rss">> ELSE <<source>>

RECURSIVE CollectPool(_, _, _, _)
\* lines 39-44: every source of src_order is read with the RSS collector; the
\* remote answers each of these fetches of one call with the same feed
CollectPool(src_order, i, feed, pool) ==
    IF i > Len(src_order) THEN pool
    ELSE LET res == fetch(feed, CollectMaxPages) IN
         CollectPool(src_order, i + 1, feed, IF res.raised = None THEN res.out ELSE pool)

\* the orders random.shuffle can leave a list of n elements in
Perms(n) == {p \in [1..n -> 1..n] : \A i, j \in 1..n : p[i] = p[j] => i = j}

Shuffled(pool, perm) == [i \in 1..Len(pool) |-> pool[perm[i]]]

\* line 50 without the slice
WholePool(shuffled, how_many) == shuffled

\* line 50: pool[:how_many]
Sample(shuffled, how_many) == SubSeq(shuffled, 1, Min(how_many, Len(shuffled)))

\* the rows of a sample for which line 19 draws a random value
Draws(sample) == {i \in 1..Len(sample) : sample[i].rating # 0 /\ sample[i].review_id = ""}

\* collect_reviews, lines 35-54: the table it leaves, the exception it raises
\* and the pair it returns (<<>> when it raises)
collect_reviews(table, app_id, country, how_many, pool, sample, rnd) ==
    IF pool = <<>> THEN [exc |-> None, table |-> table, returned |-> <<0, 0>>]
    ELSE LET before == QueryCount(table, app_id, country)
             u == upsert_reviews(table, app_id, country, sample, rnd)
             after == QueryCount(u.table, app_id, country)
         IN IF u.exc # None
            THEN [exc |-> u.exc, table |-> u.table, returned |-> <<>>]
            ELSE [exc |-> None, table |-> u.table,
                  returned |-> <<u.inserted, after - before>>]

\* ------------------------------------------------------------------ main.py

\* The function's local variable r, bound only by the for loop of the CSV
\* branch (line 87): on the JSON branch nothing has assigned it.
Unbound == "unbound"

\* lines 63-68: the list json.dumps is given holds one dict, built from r; reading
\* the unbound local raises
JsonRecords(r) ==
    IF r = Unbound THEN [exc |-> "UnboundLocalError", records |-> <<>>]
    ELSE [exc |-> None, records |-> <<r>>]

\* lines 86-88: the header row, then one row per review (the columns modelled)
CsvHeader == <<"app_id", "country", "review_id", "text", "rating", "source", "language">>

CsvRow(r) == <<r.app_id, r.country, r.review_id, r.text, r.rating, r.source, r.language>>

CsvRecords(rows) == <<CsvHeader>> \o [i \in 1..Len(rows) |-> CsvRow(rows[i])]

\* download_reviews, lines 59-101: the exception raised, the records of the
\* attachment and whether the local copy was written
download_reviews(table, app_id, country, format, save_local) ==
    LET rows == QueryAll(table, app_id, country) IN
    IF format = "json"
    THEN LET j == JsonRecords(Unbound) IN
         [exc |-> j.exc, media_type |-> "application/json", records |-> j.records,
          saved |-> save_local /\ j.exc = None]
    ELSE [exc |-> None, media_type |-> "text/csv", records |-> CsvRecords(rows),
          saved |-> save_local]

\* ------------------------------------------------------------------ nlp/recommender_llm.py

QUOTE == "\""

BACKSLASH == "\\"

\* lines 131-147: the body of the loop for the character at i; end is the index
\* of the closing bracket once the loop has returned, 0 before
ScanStep(text, st, i) ==
    LET ch == text[i] IN
    IF st.in_str
    THEN IF st.esc THEN [st EXCEPT !.esc = FALSE]
         ELSE IF ch = BACKSLASH THEN [st EXCEPT !.esc = TRUE]
         ELSE IF ch = QUOTE THEN [st EXCEPT !.in_str = FALSE]
         ELSE st
    ELSE IF ch = QUOTE THEN [st EXCEPT !.in_str = TRUE]
         ELSE IF ch = "[" THEN [st EXCEPT !.depth = st.depth + 1]
         ELSE IF ch = "]"
              THEN [st EXCEPT !.depth = st.depth - 1,
                              !.end = IF st.depth - 1 = 0 THEN i ELSE 0]
         ELSE st

RECURSIVE ScanArray(_, _, _, _)
\* line 130: for i in range(start, len(text)), here over the indices lo..hi,
\* first half then second half; the loop ends at the return of line 147
ScanArray(text, st, lo, hi) ==
    IF lo > hi THEN st
    ELSE IF lo = hi THEN ScanStep(text, st, lo)
    ELSE LET left == ScanArray(text, st, lo, (lo + hi) \div 2) IN
         IF left.end # 0 THEN left
         ELSE ScanArray(text, left, (lo + hi) \div 2 + 1, hi)

\* _extract_json_array: <<blob>>, or None when there is no balanced array
extract_json_array(text) ==
    LET opens == {i \in 1..Len(text) : text[i] = "["}
        start == CHOOSE i \in opens : \A j \in opens : i <= j
        st == ScanArray(text, [depth |-> 0, in_str |-> FALSE, esc |-> FALSE, end |-> 0],
                        start, Len(text))
    IN IF opens = {} THEN None
       ELSE IF st.end = 0 THEN None
       ELSE <<SubSeq(text, start, st.end)>>

\* json.loads of a text that opens with "[" and ends with its "]": the strings
\* of an array of strings; a JSONDecodeError for anything that is no array of
\* strings (the generator's outputs in this model hold no numbers, objects,
\* nested arrays or escapes other than of a quote and a backslash).
\* JsonStep reads the character at i. state: "first" (an item or the end),
\* "item", "in" (inside a string, cur its characters so far), "esc" (inside a
\* string, after a backslash), "after" (a comma or the end), "bad".
JsonStep(blob, st, i) ==
    LET ch == blob[i]
        bad == [st EXCEPT !.state = "bad"]
    IN
    IF st.state = "bad" THEN st
    ELSE IF st.state = "esc"
         THEN IF ch \in {QUOTE, BACKSLASH}
              THEN [st EXCEPT !.state = "in", !.cur = Append(st.cur, ch)]
              ELSE bad
    ELSE IF st.state = "in"
         THEN IF ch = QUOTE
              THEN [state |-> "after", cur |-> <<>>, items |-> Append(st.items, st.cur)]
              ELSE IF ch = BACKSLASH THEN [st EXCEPT !.state = "esc"]
              ELSE IF ch = "nl" THEN bad
              ELSE [st EXCEPT !.cur = Append(st.cur, ch)]
    ELSE IF ch \in WhitespaceChars THEN st
    ELSE IF ch = QUOTE /\ st.state \in {"first", "item"}
         THEN [st EXCEPT !.state = "in", !.cur = <<>>]
    ELSE IF ch = "," /\ st.state = "after" THEN [st EXCEPT !.state = "item"]
    ELSE bad

RECURSIVE JsonItems(_, _, _, _)
\* the characters lo..hi of the blob read in order, first half then second half
JsonItems(blob, st, lo, hi) ==
    IF lo > hi THEN st
    ELSE IF lo = hi THEN JsonStep(blob, st, lo)
    ELSE LET left == JsonItems(blob, st, lo, (lo + hi) \div 2) IN
         IF left.state = "bad" THEN left
         ELSE JsonItems(blob, left, (lo + hi) \div 2 + 1, hi)

json_loads(blob) ==
    LET st == JsonItems(blob, [state |-> "first", cur |-> <<>>, items |-> <<>>],
                        2, Len(blob) - 1)
    IN IF st.state \in {"first", "after"} THEN [exc |-> None, items |-> st.items]
       ELSE [exc |-> "JSONDecodeError", items |-> <<>>]

Lower(s) ==
    [i \in 1..Len(s) |->
        CASE s[i] = "A" -> "a" [] s[i] = "B" -> "b" [] s[i] = "C" -> "c" [] OTHER -> s[i]]

RECURSIVE RStripDots(_)
\* str.rstrip(".")
RStripDots(s) ==
    IF s # <<>> /\ s[Len(s)] = "." THEN RStripDots(SubSeq(s, 1, Len(s) - 1)) ELSE s

RECURSIVE DedupeLoop(_, _, _, _)
\* lines 152-160
DedupeLoop(items, i, seen, out) ==
    IF i > Len(items) THEN out
    ELSE LET t == Strip(items[i])
             key == RStripDots(Lower(t))
         IN IF key # <<>> /\ key \notin seen
            THEN DedupeLoop(items, i + 1, seen \cup {key}, Append(out, RStripDots(t)))
            ELSE DedupeLoop(items, i + 1, seen, out)

dedupe_keep_order(items) == DedupeLoop(items, 1, {}, <<>>)

\* s[:n]
Take(s, n) == SubSeq(s, 1, Min(n, Len(s)))

\* str.splitlines(): a line opens at the start of the text and after every line
\* break but one that ends the text, and runs up to the next line break
SplitLines(s) ==
    LET breaks == {i \in 1..Len(s) : s[i] = "nl"}
        starts == IF s = <<>> THEN {}
                  ELSE {1} \cup {b + 1 : b \in {c \in breaks : c < Len(s)}}
        StartOf(k) == CHOOSE p \in starts : Cardinality({q \in starts : q < p}) = k - 1
        EndOf(p) == IF \E b \in breaks : b >= p
                    THEN (CHOOSE b \in breaks :
                              b >= p /\ \A c \in breaks : c >= p => b <= c) - 1
                    ELSE Len(s)
    IN [k \in 1..Cardinality(starts) |-> SubSeq(s, StartOf(k), EndOf(StartOf(k)))]

\* len(s.split()): the number of runs of non-whitespace characters
WordCount(s) ==
    Cardinality({i \in 1..Len(s) :
                    /\ s[i] \notin WhitespaceChars
                    /\ (i = 1 \/ s[i - 1] \in WhitespaceChars)})

StartsWithBullet(s) == Len(s) >= 2 /\ s[1] = "-" /\ s[2] = " "

\* lines 227-228: the texts of the lines that start with "- " and hold at least
\* three words
BulletLines(out2) ==
    LET lines == SplitLines(out2)
        bullets == SelectSeq(lines, LAMBDA ln : StartsWithBullet(Strip(ln)))
        texts == [i \in 1..Len(bullets) |->
                    RStripDots(Strip(SubSeq(Strip(bullets[i]), 3, Len(Strip(bullets[i])))))]
    IN SelectSeq(texts, LAMBDA ln : WordCount(ln) >= 3)

\* line 185
NoNegativesReply == <<"no-negative-feedback">>

\* lines 234-240
GenericReply == <<"crashes", "pricing", "login", "performance", "billing">>

\* lines 202-212: the list the JSON attempt returns, <<>> when it returns none
JsonAttempt(out) ==
    LET blob == extract_json_array(out) IN
    IF blob = None THEN <<>>
    ELSE LET j == json_loads(blob[1])
             arr == Take(dedupe_keep_order(j.items), 5)
         IN IF j.exc = None /\ 3 <= Len(arr) /\ Len(arr) <= 5 THEN arr ELSE <<>>

\* generate_recommendations_from_reviews, lines 177-240; out and out2 are the
\* texts the generator answers the JSON prompt and the bullet prompt with
generate_recommendations_from_reviews(negative_texts, out, out2) ==
    IF negative_texts = <<>> THEN NoNegativesReply
    ELSE IF JsonAttempt(out) # <<>> THEN JsonAttempt(out)
    ELSE LET lines == Take(dedupe_keep_order(BulletLines(out2)), 5) IN
         IF lines # <<>> THEN lines ELSE GenericReply

\* ------------------------------------------------------------------ the fetch specification

FetchEntries == {E_r1, E_r2, E_bad}

\* The pages of a feed: every page of up to MaxPageEntries entries, and a first
\* page that opens with the app's metadata entry.
FetchPageSet ==
    PagesOf(FetchEntries, MaxPageEntries)
        \cup {Page("ok", <<E_meta, E_r1>>), Page("ok", <<E_nolabel, E_r1>>)}

FetchFeeds == SeqsUpTo(FetchPageSet, MaxFeedPages)

Idle == [op |-> "idle"]

InitFetch ==
    /\ reviews = <<>>
    /\ calls = 0
    /\ threads = NoThreads /\ globals = NoGlobals
    /\ \E f \in FetchFeeds, m \in {1, CollectMaxPages} :
           last = [op |-> "fetch_call", feed |-> f, max_pages |-> m]

Fetch ==
    /\ last.op = "fetch_call"
    /\ last' = [op |-> "fetch", feed |-> last.feed, max_pages |-> last.max_pages,
                res |-> fetch(last.feed, last.max_pages)]
    /\ calls' = calls + 1
    /\ UNCHANGED <<reviews, threads, globals>>

NextFetch == Fetch

SpecFetch == InitFetch /\ [][NextFetch]_vars

\* ------------------------------------------------------------------ the recommender specification

T_abc == <<"a", " ", "b", " ", "c">>
T_Abc_dot == <<"A", " ", "b", " ", "c", ".">>
T_bca == <<"b", " ", "c", " ", "a">>
T_cab == <<"c", " ", "a", " ", "b">>
T_acb == <<"a", " ", "c", " ", "b">>
T_bac == <<"b", " ", "a", " ", "c">>
T_cba == <<"c", " ", "b", " ", "a">>
T_ab == <<"a", " ", "b">>

Quoted(s) == <<QUOTE>> \o s \o <<QUOTE>>

RECURSIVE CommaJoined(_)
CommaJoined(items) ==
    IF items = <<>> THEN <<>>
    ELSE IF Len(items) = 1 THEN Quoted(items[1])
    ELSE Quoted(items[1]) \o <<",", " ">> \o CommaJoined(Tail(items))

JsonArray(items) == <<"[">> \o CommaJoined(items) \o <<"]">>

RECURSIVE Bullets(_)
Bullets(lines) ==
    IF lines = <<>> THEN <<>>
    ELSE <<"-", " ">> \o Head(lines) \o <<"nl">> \o Bullets(Tail(lines))

\* what the generator answers the JSON prompt with: no array, three items, six
\* items, items that differ in case and a final dot only, an array left open,
\* an array that is no JSON, an array inside other text with a bracket and an
\* escaped quote inside a string, an empty array
JsonAnswers ==
    {T_abc,
     JsonArray(<<T_abc, T_bca, T_cab>>),
     JsonArray(<<T_abc, T_bca, T_cab, T_acb, T_bac, T_cba>>),
     JsonArray(<<T_abc, T_Abc_dot, T_bca>>),
     <<"[">> \o Quoted(T_abc),
     <<"[">> \o T_abc \o <<"]">>,
     T_ab \o <<" ">> \o JsonArray(<<T_abc \o <<"]", BACKSLASH, QUOTE>>, T_bca, T_cab>>) \o T_ab,
     <<"[", "]">>}

\* what the generator answers the bullet prompt with: five lines, six lines, one
\* line, lines that differ in case and a final dot only, no bullet, a line of two
\* words, indented lines after a blank line
BulletAnswers ==
    {Bullets(<<T_abc, T_bca, T_cab, T_acb, T_bac>>),
     Bullets(<<T_abc, T_bca, T_cab, T_acb, T_bac, T_cba>>),
     Bullets(<<T_abc>>),
     Bullets(<<T_abc, T_Abc_dot, T_bca>>),
     T_abc,
     Bullets(<<T_ab>>),
     <<"nl", " ">> \o Bullets(<<T_abc, T_bca, T_cab>>)}

NegativeTexts == {<<>>, <<T_abc>>, <<<<>>>>, <<T_abc, T_ab>>}

InitRecs ==
    /\ reviews = <<>>
    /\ calls = 0
    /\ threads = NoThreads /\ globals = NoGlobals
    /\ \E n \in NegativeTexts, out \in JsonAnswers, out2 \in BulletAnswers :
           last = [op |-> "recs_call", negative_texts |-> n, out |-> out, out2 |-> out2]

Recommend ==
    /\ last.op = "recs_call"
    /\ last' = [op |-> "recs", negative_texts |-> last.negative_texts,
                out |-> last.out, out2 |-> last.out2,
                res |-> generate_recommendations_from_reviews(
                            last.negative_texts, last.out, last.out2)]
    /\ calls' = calls + 1
    /\ UNCHANGED <<reviews, threads, globals>>

NextRecs == Recommend

SpecRecs == InitRecs /\ [][NextRecs]_vars

\* ------------------------------------------------------------------ properties of fetch

\* the records of the entries of es that carry a rating, in order
RECURSIVE RecordsOf(_)
RecordsOf(es) ==
    IF es = <<>> THEN <<>>
    ELSE (IF Head(es).has_rating
          THEN <<ReviewRecord(Head(es), EntryRating(Head(es)).val)>> ELSE <<>>)
         \o RecordsOf(Tail(es))

EntryFails(e) == e.has_rating /\ EntryRating(e).exc # None

PageFails(p) == p.kind # "ok" \/ \E i \in 1..Len(p.entries) : EntryFails(p.entries[i])

\* the entries of a page that come before its first failing entry
ParsedPrefix(es) ==
    LET bad == {i \in 1..Len(es) : EntryFails(es[i])}
        first == IF bad = {} THEN Len(es) + 1
                 ELSE CHOOSE i \in bad : \A j \in bad : i <= j
    IN SubSeq(es, 1, first - 1)

FetchOutIs(Contribution(_)) ==
    LET m == last.max_pages IN
    /\ last.res.raised = None
    /\ last.res.out = Concat([p \in 1..m |-> Contribution(PageAt(last.feed, p))], m)

ZeroWhenFails(p) == IF PageFails(p) THEN <<>> ELSE RecordsOf(p.entries)

PrefixWhenFails(p) == IF p.kind # "ok" THEN <<>> ELSE RecordsOf(ParsedPrefix(p.entries))

Keys == {<<"a1", "us">>, <<"a1", "gb">>}

Sources == {"auto", "rss"}

\* how_many of a request (schemas.py line 8: 1 to 1000)
HowManyValues == {1, 2}

CollectEntries == <<E_r1, E_r1_neg, E_r2_big, E_r2_zero, E_noid>>

\* What the remote feed holds when collect is called: nothing, one page of one
\* or two entries (in one order: collect shuffles them), or a page that fails
\* followed by a page of one review.
CollectFeeds ==
    {<<>>}
        \cup {<<Page("ok", <<CollectEntries[i]>>)>> : i \in DOMAIN CollectEntries}
        \cup {<<Page("ok", <<CollectEntries[ij[1]], CollectEntries[ij[2]]>>)>> :
                    ij \in {p \in (DOMAIN CollectEntries) \X (DOMAIN CollectEntries) :
                                p[1] <= p[2]}}
        \cup {<<Page("network_error", <<>>), Page("ok", <<E_meta, E_r2_big>>)>>}

\* The requests of the model: source "auto" with every feed, and source "rss"
\* with the empty and the two-page feed.
SourceAndFeed ==
    {<<"auto", f>> : f \in CollectFeeds}
        \cup {<<"rss", f>> : f \in {f \in CollectFeeds : Len(f) # 1}}

\* the pool lines 35-44 leave, for every source and feed of the model
PoolOf ==
    [source \in Sources |->
        [feed \in CollectFeeds |-> CollectPool(SrcOrder(source), 1, feed, <<>>)]]

Init ==
    /\ reviews = <<>>
    /\ last = Idle
    /\ calls = 0
    /\ threads = NoThreads /\ globals = NoGlobals

\* whether the call before was a collect with these arguments that read the same
\* entries from the feed
Repeats(call, app_id, country, how_many, pool) ==
    /\ call.op = "collect"
    /\ call.app_id = app_id /\ call.country = country
    /\ call.how_many = how_many /\ call.pool = pool

\* POST /collect (main.py lines 27-30)
Collect(app_id, country, how_many, source, feed) ==
    /\ LET pool == PoolOf[source][feed] IN
       \E perm \in Perms(Len(pool)) :
         LET sample == Sample(Shuffled(pool, perm), how_many) IN
         \E rnd \in [Draws(sample) -> RandBits] :
           LET c == collect_reviews(reviews, app_id, country, how_many, pool, sample, rnd)
           IN /\ reviews' = c.table
              /\ last' = [op |-> "collect", app_id |-> app_id, country |-> country,
                          how_many |-> how_many, pool |-> pool, sample |-> sample,
                          exc |-> c.exc, returned |-> c.returned,
                          repeat |-> Repeats(last, app_id, country, how_many, pool)]
    /\ calls' = calls + 1
    /\ UNCHANGED <<threads, globals>>

\* GET /reviews/download (main.py lines 58-101)
Download(app_id, country, format, save_local) ==
    /\ last' = [op |-> "download", app_id |-> app_id, country |-> country,
                format |-> format,
                res |-> download_reviews(reviews, app_id, country, format, save_local)]
    /\ calls' = calls + 1
    /\ UNCHANGED <<reviews, threads, globals>>

Formats == {"csv", "json"}

\* The service serves requests one at a time, MaxCalls of them in a run.
CollectRequest ==
    /\ calls < MaxCalls
    /\ \E key \in Keys, how_many \in HowManyValues, sf \in SourceAndFeed :
            Collect(key[1], key[2], how_many, sf[1], sf[2])

DownloadRequest ==
    /\ calls < MaxCalls
    /\ \E key \in Keys, format \in Formats, save_local \in BOOLEAN :
            Download(key[1], key[2], format, save_local)

Next == CollectRequest \/ DownloadRequest

Spec == Init /\ [][Next]_vars

\* ------------------------------------------------------------------ properties of the service

Collected == last.op = "collect"

Returned == Collected /\ last.exc = None

R_r1 == ReviewRecord(E_r1, 5)

R_r1_neg == ReviewRecord(E_r1_neg, 0 - 1)

R_r2_big == ReviewRecord(E_r2_big, 7)

R_noid == ReviewRecord(E_noid, 4)

\* C1: the table never holds two rows with the same (app_id, country, review_id).
C1_NoDuplicateKeys ==
    \A i, j \in 1..Len(reviews) : i < j => ~SameKey(reviews[i], reviews[j])

\* a second collect whose sample holds the review already stored and a new one:
\* the stored one is skipped and the new one is added
C1_Witness ==
    /\ Returned /\ calls = 2
    /\ last.sample = <<R_r1_neg, R_r2_big>>
    /\ last.returned = <<1, 1>>
    /\ Len(reviews) = 2
    /\ reviews[1].review_id = "r1" /\ reviews[2].review_id = "r2"
    /\ SameKey(reviews[1], [reviews[2] EXCEPT !.review_id = "r1"])

\* C2: a collect call that returns returns inserted_count = net_new_count.
C2_InsertedEqualsNetNew ==
    Returned => last.returned[1] = last.returned[2]

\* a call on a table that holds a row, with an unrated entry and one without an
\* identifier in the sample
C2_Witness ==
    /\ Returned /\ calls = 2
    /\ last.sample = <<ReviewRecord(E_r2_zero, 0), R_noid>>
    /\ last.returned = <<1, 1>>
    /\ Len(reviews) = 2

\* C3 (as stated): a collect call that follows a collect call with the same
\* app_id, country and how_many and reads the same entries from the feed
\* returns inserted_count = 0.
C3_SecondCollectInsertsNothing ==
    (Returned /\ last.repeat) => last.returned[1] = 0

\* every entry of the pool is in every sample, and none gets a random identifier
WholePoolSampled ==
    /\ Len(last.pool) <= last.how_many
    /\ \A i \in 1..Len(last.pool) :
            last.pool[i].rating # 0 => last.pool[i].review_id # ""

\* C3 (amended): a collect call that follows a collect call with the same app_id,
\* country and how_many and reads the same entries from the feed returns
\* inserted_count = 0 when it returns, provided the pool holds at most how_many
\* entries and every rated entry of it has a non-empty review identifier.
C3_SecondCollectOfWholePoolInsertsNothing ==
    (Returned /\ last.repeat /\ WholePoolSampled) => last.returned[1] = 0

\* the second of two calls that read the same two reviews with how_many = 2
C3_Witness ==
    /\ Returned /\ last.repeat /\ WholePoolSampled
    /\ last.how_many = 2
    /\ last.pool = <<R_r1, R_r2_big>>
    /\ Len(reviews) = 2
    /\ last.returned = <<0, 0>>

\* C4: no collect call raises, whatever the sample holds.
C4_CollectNeverRaises ==
    Collected => last.exc = None

\* C5: every stored row has a rating in 1..5.
C5_RatingsInRange ==
    \A i \in 1..Len(reviews) : reviews[i].rating \in 1..5

\* all records are rated and carry pairwise distinct non-empty identifiers
DistinctRated(pool) ==
    /\ \A i \in 1..Len(pool) : pool[i].rating # 0 /\ pool[i].review_id # ""
    /\ \A i, j \in 1..Len(pool) : pool[i].review_id = pool[j].review_id => i = j

NoneStored(table, app_id, country, pool) ==
    \A i \in 1..Len(pool) : QueryFirst(table, app_id, country, pool[i].review_id) = 0

\* C7: a collect call whose pool of n records is all rated, with pairwise distinct
\* non-empty identifiers none of which is stored for the app and country,
\* returns inserted_count = min(how_many, n).
C7_InsertsMinOfHowManyAndPool ==
    [][(/\ calls' = calls + 1
        /\ last'.op = "collect"
        /\ DistinctRated(last'.pool)
        /\ NoneStored(reviews, last'.app_id, last'.country, last'.pool))
       => (/\ last'.exc = None
           /\ last'.returned[1] = Min(last'.how_many, Len(last'.pool)))]_vars

\* how_many = 1 against a pool of two new reviews: one row is inserted
C7_Witness ==
    /\ Returned /\ calls = 1
    /\ last.how_many = 1
    /\ last.pool = <<R_r1, R_r2_big>>
    /\ last.returned = <<1, 1>>
    /\ Len(reviews) = 1

\* C8: no call changes or removes a row that was stored before it.
C8_StoredRowsNeverChange ==
    [][\A i \in 1..Len(reviews) : i <= Len(reviews') /\ reviews'[i] = reviews[i]]_vars

\* a collect call that reads a review stored before with other field values
C8_Witness ==
    /\ Returned /\ calls = 2
    /\ last.sample = <<R_r1_neg>>
    /\ last.returned = <<0, 0>>
    /\ reviews = <<Review(last.app_id, last.country, "r1", <<"a", " ", "b">>, 5, "rss", "")>>

\* C10: a download with format=json succeeds and its attachment holds one record
\* per stored review of the app and country.
C10_JsonDownloadHasEveryRow ==
    (last.op = "download" /\ last.format = "json")
        => /\ last.res.exc = None
           /\ Len(last.res.records) = QueryCount(reviews, last.app_id, last.country)

\* ------------------------------------------------------------------ properties of the recommender

\* C9: generate_recommendations_from_reviews returns between 3 and 5
\* recommendations for every input.
C9_ThreeToFiveRecommendations ==
    last.op = "recs" => (3 <= Len(last.res) /\ Len(last.res) <= 5)

\* ------------------------------------------------------------------ services/metrics_service.py

\* Reals are kept in hundredths: 4.33 is 433 and 66.67 is 6667.

\* int(num / den) of the product in hundredths, were round() a truncation
TruncateTo2(num, den) == (num * 100) \div den

\* round(num / den, 2): the nearest hundredth, a half going to the even one.
\* (A quotient whose third decimal is an exact half needs a denominator that
\* is a multiple of 8; below that every quotient has one nearest hundredth.)
RoundTo2(num, den) ==
    LET q == (num * 100) \div den
        r == (num * 100) % den
    IN IF 2 * r < den THEN q
       ELSE IF 2 * r > den THEN q + 1
       ELSE IF q % 2 = 0 THEN q ELSE q + 1

RECURSIVE SumSeq(_)
\* sum(ratings)
SumSeq(xs) == IF xs = <<>> THEN 0 ELSE Head(xs) + SumSeq(Tail(xs))

\* line 9: [r.rating for r in rows if r.rating is not None]; the column is an
\* Integer with nullable=False (models.py line 13), a rating is an integer
RatingsOf(rows) ==
    LET rated == SelectSeq(rows, LAMBDA r : r.rating \in Int) IN
    [i \in 1..Len(rated) |-> rated[i].rating]

\* line 11: Counter(ratings)
Counter(ratings) ==
    [k \in {ratings[i] : i \in 1..Len(ratings)} |->
        Cardinality({i \in 1..Len(ratings) : ratings[i] = k})]

\* compute_metrics, lines 5-14; the distribution maps a rating to its percentage
\* (the keys of the dict are the ratings as strings, in ascending order)
compute_metrics(table, app_id, country) ==
    LET rows == QueryAll(table, app_id, country)
        ratings == RatingsOf(rows)
        c == Counter(ratings)
        total == Len(ratings)
    IN IF rows = <<>>
       THEN [count |-> 0, average_rating |-> 0, distribution |-> <<>>]
       ELSE [count |-> total,
             average_rating |-> IF ratings # <<>>
                                THEN RoundTo2(SumSeq(ratings), Len(ratings)) ELSE 0,
             distribution |-> [k \in DOMAIN c |-> RoundTo2(c[k] * 100, total)]]

\* ------------------------------------------------------------------ the metrics specification

MaxStored == 3         \* rows in the table (metrics specification)

\* Ratings of stored rows: upsert_reviews stores any rating that is not falsy.
StoredRatings == {0 - 1, 3, 5}

StoredIds == <<"r1", "r2", "r3", "r4", "r5", "r6">>

\* The tables of up to MaxStored rows, each row with an identifier of its own.
StoredTable(f) ==
    [i \in DOMAIN f |-> Review(f[i][1][1], f[i][1][2], StoredIds[i], <<>>, f[i][2], "rss", "")]

InitMetrics ==
    /\ calls = 0
    /\ threads = NoThreads /\ globals = NoGlobals
    /\ \E n \in 0..MaxStored :
         \E f \in [1..n -> Keys \X StoredRatings] : reviews = StoredTable(f)
    /\ \E k \in Keys : last = [op |-> "metrics_call", app_id |-> k[1], country |-> k[2]]

\* main.py lines 40-47: GET /metrics
Metrics ==
    /\ last.op = "metrics_call"
    /\ last' = [op |-> "metrics", app_id |-> last.app_id, country |-> last.country,
                res |-> compute_metrics(reviews, last.app_id, last.country)]
    /\ calls' = calls + 1
    /\ UNCHANGED <<reviews, threads, globals>>

NextMetrics == Metrics

SpecMetrics == InitMetrics /\ [][NextMetrics]_vars

\* ------------------------------------------------------------------ properties of compute_metrics

Abs(x) == IF x < 0 THEN 0 - x ELSE x

RECURSIVE SumOver(_, _)
SumOver(f, ks) ==
    IF ks = {} THEN 0
    ELSE LET k == CHOOSE x \in ks : TRUE IN f[k] + SumOver(f, ks \ {k})

MetricsDone == last.op = "metrics"

StoredFor == QueryAll(reviews, last.app_id, last.country)

\* C11: when at least one review is stored for (app_id, country), count is the
\* number of stored reviews and the percentages of the distribution, each rounded
\* to 2 decimals, sum to 100.00 within half a hundredth per percentage; when none
\* is stored the result is count 0, average_rating 0.0 and an empty distribution;
\* ratings [5,5,3] give count 3, average 4.33 and distribution {3: 33.33, 5: 66.67}.
C11_MetricsCountAndDistribution ==
    MetricsDone =>
        LET m == last.res
            d == m.distribution
        IN /\ StoredFor # <<>> =>
                /\ m.count = Len(StoredFor)
                /\ 2 * Abs(SumOver(d, DOMAIN d) - 10000) <= Cardinality(DOMAIN d)
           /\ StoredFor = <<>> =>
                /\ m.count = 0 /\ m.average_rating = 0 /\ DOMAIN d = {}
           /\ RatingsOf(StoredFor) = <<5, 5, 3>> =>
                /\ m.count = 3 /\ m.average_rating = 433
                /\ DOMAIN d = {3, 5} /\ d[3] = 3333 /\ d[5] = 6667

\* the metrics of ratings [5,5,3]
C11_Witness ==
    /\ MetricsDone
    /\ RatingsOf(StoredFor) = <<5, 5, 3>>
    /\ last.res.count = 3
    /\ last.res.distribution[5] = 6667

\* ------------------------------------------------------------------ concurrent calls of collect_reviews

\* POST /collect is a plain def: the framework runs each request on a thread of
\* its pool, each with a session of its own (main.py lines 20-28).  A statement
\* sent to the database is one step; what a session has added and not flushed
\* is local to its caller.  db.commit() is one step: the storage engine orders
\* the transactions that write, and an INSERT that meets the key of a row of a
\* transaction under way waits for its end.

RaceCallers == {"t1", "t2"}

\* Both calls are for one app and country.
RaceApp == "a1"

RaceCountry == "us"

\* the samples the two calls drew from their pools
RaceSamples ==
    {<<R_r1>>, <<R_r2_big>>, <<R_r1, R_r2_big>>, <<R_r2_big, R_r1>>, <<R_r1, R_r1>>}

\* a caller at line 51 of collect_reviews, its sample drawn
CallerStart(sample) ==
    [pc |-> "before", sample |-> sample, i |-> 1, added |-> <<>>, inserted |-> 0,
     before |-> 0, exc |-> None, returned |-> <<>>]

InitRace ==
    /\ reviews = <<>>
    /\ last = Idle
    /\ calls = 0
    /\ globals = NoGlobals
    /\ threads \in [RaceCallers -> {CallerStart(sample) : sample \in RaceSamples}]

\* review_service.py line 51: before = ....count()
CountBefore(t) ==
    /\ threads[t].pc = "before"
    /\ threads' = [threads EXCEPT
                     ![t].before = QueryCount(reviews, RaceApp, RaceCountry),
                     ![t].pc = "upsert"]
    /\ UNCHANGED <<reviews, last, calls, globals>>

\* review_service.py lines 10-30: one pass of the loop of upsert_reviews, for
\* rows[i]: the lookup of line 13 and, when it finds no row, db.add
UpsertRow(t) ==
    LET c == threads[t]
        l == UpsertLoop(reviews, RaceApp, RaceCountry, SubSeq(c.sample, 1, c.i),
                        [j \in 1..Len(c.sample) |-> 0], c.i, c.added, c.inserted)
    IN /\ c.pc = "upsert"
       /\ c.i <= Len(c.sample)
       /\ reviews' = l.table
       /\ threads' = [threads EXCEPT ![t].added = l.pending,
                                     ![t].inserted = l.inserted,
                                     ![t].i = c.i + 1]
       /\ UNCHANGED <<last, calls, globals>>

\* review_service.py line 31: db.commit(); an IntegrityError leaves collect_reviews
CommitRows(t) ==
    LET c == threads[t]
        done == Commit(reviews, c.added)
    IN /\ c.pc = "upsert"
       /\ c.i > Len(c.sample)
       /\ reviews' = done.table
       /\ threads' = [threads EXCEPT
                        ![t].exc = done.exc,
                        ![t].pc = IF done.exc = None THEN "after" ELSE "raised"]
       /\ calls' = IF done.exc = None THEN calls ELSE calls + 1
       /\ UNCHANGED <<last, globals>>

\* review_service.py lines 53-54: after = ....count(); return inserted, after - before
CountAfter(t) ==
    LET c == threads[t] IN
    /\ c.pc = "after"
    /\ threads' = [threads EXCEPT
                     ![t].returned =
                         <<c.inserted, QueryCount(reviews, RaceApp, RaceCountry) - c.before>>,
                     ![t].pc = "done"]
    /\ calls' = calls + 1
    /\ UNCHANGED <<reviews, last, globals>>

NextRace ==
    \E t \in RaceCallers :
        CountBefore(t) \/ UpsertRow(t) \/ CommitRows(t) \/ CountAfter(t)

SpecRace == InitRace /\ [][NextRace]_vars

\* ------------------------------------------------------------------ properties of the race

Ended(t) == threads[t].pc \in {"done", "raised"}

BothEnded == \A t \in RaceCallers : Ended(t)

\* the review identifiers that passed the duplicate check of caller t
AddedIds(t) == {threads[t].added[i].review_id : i \in 1..Len(threads[t].added)}

\* the identifiers that passed the duplicate check of both callers
AddedByBoth == AddedIds("t1") \cap AddedIds("t2")

RowsWithId(x) ==
    {i \in 1..Len(reviews) : SameKey(reviews[i], [app_id |-> RaceApp,
                                                 country |-> RaceCountry,
                                                 review_id |-> x])}

\* the callers whose commit went through, and those it raised in
Committed == {t \in RaceCallers : threads[t].pc \in {"after", "done"}}

Raised == {t \in RaceCallers : threads[t].pc = "raised"}

RECURSIVE RowsAddedBy(_)
RowsAddedBy(ts) ==
    IF ts = {} THEN 0
    ELSE LET t == CHOOSE x \in ts : TRUE IN Len(threads[t].added) + RowsAddedBy(ts \ {t})

MaxGetters == 3        \* concurrent callers of _get_pipe and _get_generator

\* "sentiment" is _get_pipe with sentiment._LOCK and sentiment._pipe;
\* "recommender" is _get_generator with recommender_llm._LOCK and
\* recommender_llm._PIPE.
PipeKinds == {"sentiment", "recommender"}

\* A pipeline object is a positive number, None is 0.  Of a module: lock is the
\* thread that holds _LOCK (0 when it is free), pipe the value of the global,
\* made the number of pipelines whose construction has begun, ready those whose
\* construction has ended.
ModuleStart == [lock |-> 0, pipe |-> 0, made |-> 0, ready |-> {}]

\* a caller about to enter the function
GetterStart(kind) == [pc |-> "call", kind |-> kind, obj |-> 0, result |-> 0]

InitPipes ==
    /\ reviews = <<>>
    /\ last = Idle
    /\ calls = 0
    /\ globals = [k \in PipeKinds |-> ModuleStart]
    /\ threads \in [1..MaxGetters -> {GetterStart(k) : k \in PipeKinds}]

\* a lock that every thread may take at any time
NoLock(lock) == TRUE

\* threading.Lock: acquire goes on when no thread holds the lock
LockIsFree(lock) == lock = 0

\* sentiment.py line 9, recommender_llm.py line 38: with _LOCK (entry)
Acquire(t) ==
    LET k == threads[t].kind IN
    /\ threads[t].pc = "call"
    /\ LockIsFree(globals[k].lock)
    /\ globals' = [globals EXCEPT ![k].lock = t]
    /\ threads' = [threads EXCEPT ![t].pc = "test"]
    /\ UNCHANGED <<reviews, last, calls>>

\* sentiment.py line 10, recommender_llm.py line 39: if _pipe is None
TestNone(t) ==
    LET k == threads[t].kind IN
    /\ threads[t].pc = "test"
    /\ threads' = [threads EXCEPT
                     ![t].pc = IF globals[k].pipe = 0 THEN "build" ELSE "release"]
    /\ UNCHANGED <<reviews, last, calls, globals>>

\* sentiment.py line 11, recommender_llm.py lines 42-46: pipeline(...) is called
\* and begins to build an object
BuildBegins(t) ==
    LET k == threads[t].kind IN
    /\ threads[t].pc = "build"
    /\ globals' = [globals EXCEPT ![k].made = globals[k].made + 1]
    /\ threads' = [threads EXCEPT ![t].obj = globals[k].made + 1, ![t].pc = "building"]
    /\ UNCHANGED <<reviews, last, calls>>

\* pipeline(...) returns the object, and the assignment binds the global to it
BuildEnds(t) ==
    LET k == threads[t].kind IN
    /\ threads[t].pc = "building"
    /\ globals' = [globals EXCEPT ![k].ready = globals[k].ready \cup {threads[t].obj},
                                  ![k].pipe = threads[t].obj]
    /\ threads' = [threads EXCEPT ![t].pc = "release"]
    /\ UNCHANGED <<reviews, last, calls>>

\* pipeline(...) raises (the model cannot be loaded): the with statement
\* releases the lock and the exception leaves the function
BuildRaises(t) ==
    LET k == threads[t].kind IN
    /\ threads[t].pc = "building"
    /\ globals' = [globals EXCEPT ![k].lock = 0]
    /\ threads' = [threads EXCEPT ![t].pc = "raised"]
    /\ calls' = calls + 1
    /\ UNCHANGED <<reviews, last>>

\* the end of the with block: the lock is released
Release(t) ==
    LET k == threads[t].kind IN
    /\ threads[t].pc = "release"
    /\ globals' = [globals EXCEPT ![k].lock = 0]
    /\ threads' = [threads EXCEPT ![t].pc = "return"]
    /\ UNCHANGED <<reviews, last, calls>>

\* sentiment.py line 12, recommender_llm.py line 47: return _pipe, read with the
\* lock released
ReturnPipe(t) ==
    LET k == threads[t].kind IN
    /\ threads[t].pc = "return"
    /\ threads' = [threads EXCEPT ![t].result = globals[k].pipe, ![t].pc = "done"]
    /\ calls' = calls + 1
    /\ UNCHANGED <<reviews, last, globals>>

NextPipes ==
    \E t \in 1..MaxGetters :
        \/ Acquire(t) \/ TestNone(t) \/ BuildBegins(t) \/ BuildEnds(t)
        \/ BuildRaises(t) \/ Release(t) \/ ReturnPipe(t)

SpecPipes == InitPipes /\ [][NextPipes]_vars

\* ------------------------------------------------------------------ properties of the pipelines

\* the callers of a function that have returned
Got(k) == {t \in 1..MaxGetters : threads[t].kind = k /\ threads[t].pc = "done"}

\* C13: under any interleaving of concurrent callers of _get_pipe or of
\* _get_generator, at most one pipeline is constructed, _pipe is None or that
\* pipeline fully constructed, and every caller that returns is given it.
C13_PipelineBuiltOnceAndShared ==
    \A k \in PipeKinds :
        /\ Cardinality(globals[k].ready) <= 1
        /\ globals[k].pipe # 0 => globals[k].pipe \in globals[k].ready
        /\ \A t \in Got(k) : threads[t].result \in globals[k].ready
        /\ \A t, u \in Got(k) : threads[t].result = threads[u].result

\* two callers of _get_pipe have returned the one pipeline, after a first
\* construction that raised
C13_Witness ==
    /\ Cardinality(Got("sentiment")) >= 2
    /\ \A t \in Got("sentiment") : threads[t].result = 2
    /\ globals["sentiment"].made = 2
    /\ globals["sentiment"].ready = {2}

====
